---- MODULE Spec2Model ----
(***************************************************************************)
(* A model of forms.py: the HTMLForm / FormEncodeForm lifecycle            *)
(* (is_bound -> full_clean -> errors / cleaned_data), the mapping helpers  *)
(* model_to_dict and update_model, and the patched FileField.clean.        *)
(*                                                                         *)
(* Python values are modelled as follows.                                  *)
(*   - a dict is a function whose DOMAIN is the set of its keys;           *)
(*   - an object is a function from attribute names to values, so that     *)
(*     setattr / delattr / hasattr are changes of and tests on its DOMAIN; *)
(*   - None is the record NoneVal;                                         *)
(*   - a string whose characters matter is a tuple of characters.          *)
(***************************************************************************)
EXTENDS Integers, Sequences, FiniteSets, TLC

VARIABLES
    self,            \* the form instance: attribute name -> value
    cls,             \* what the form's class supplies: kind, clean() hook, schema
    cleanCalls,      \* number of clean() invocations so far
    schemaCalls,     \* number of to_python() invocations so far
    fullCleanCalls,  \* number of full_clean() invocations so far
    op,              \* the last operation called on the form
    result,          \* what that operation returned
    m2d,             \* one call of model_to_dict: arguments, position, result
    upd,             \* one call of update_model: arguments, position, target
    ff               \* one call of FileField.clean: field, arguments, outcome

formVars == <<self, cls, cleanCalls, schemaCalls, fullCleanCalls, op, result>>
vars == <<self, cls, cleanCalls, schemaCalls, fullCleanCalls, op, result, m2d, upd, ff>>

-----------------------------------------------------------------------------
(* Python values *)

NoneVal == [None |-> TRUE]
EmptyMap == << >>

SetAttr(o, a, v) == [x \in (DOMAIN o) \cup {a} |-> IF x = a THEN v ELSE o[x]]
DelAttr(o, a) == [x \in (DOMAIN o) \ {a} |-> o[x]]
HasAttr(o, a) == a \in DOMAIN o

\* d[k] = v on a dict
SetItem(d, k, v) == [x \in (DOMAIN d) \cup {k} |-> IF x = k THEN v ELSE d[x]]

\* bool(d) of a dict
DictTruthy(d) == DOMAIN d # {}

\* x or {} for an argument that is None or a dict
OrEmpty(x) == IF x = NoneVal \/ ~DictTruthy(x) THEN EmptyMap ELSE x

NON_FIELD_ERRORS == "__all__"

-----------------------------------------------------------------------------
(* The inputs of the form lifecycle *)

MaxCalls == 3

FieldNames == {"foo"}
FieldValues == {"bar", "hello"}
DataMaps == UNION {[S -> FieldValues] : S \in SUBSET FieldNames}
FileMaps == {EmptyMap, [upload |-> "f"]}
MessageLists == {<<"bad">>, << >>}
FieldErrorMaps == {[foo |-> <<"tooShort">>]}

Kinds == {"HTMLForm", "FormEncodeForm"}

\* What a subclass's clean() does: the inherited default, an override that
\* returns a value, an override that raises ValidationError, or (caught by
\* FormEncodeForm only) an override that raises formencode's Invalid.
CleanHooks(kind) ==
    {[tag |-> "default", value |-> EmptyMap, messages |-> << >>]}
    \cup {[tag |-> "return", value |-> v, messages |-> << >>] : v \in DataMaps}
    \cup {[tag |-> "ValidationError", value |-> EmptyMap, messages |-> m] : m \in MessageLists}
    \cup (IF kind = "FormEncodeForm"
          THEN {[tag |-> "Invalid", value |-> EmptyMap, messages |-> m] : m \in MessageLists}
          ELSE {})

\* What the declared schema's to_python does with the submitted data:
\* converts it, or raises Invalid carrying per-field errors.
Schemas(kind) ==
    IF kind = "FormEncodeForm"
    THEN {[tag |-> "ok", value |-> v, errors |-> EmptyMap] : v \in DataMaps}
         \cup {[tag |-> "invalid", value |-> EmptyMap, errors |-> e] : e \in FieldErrorMaps}
    ELSE {[tag |-> "none", value |-> EmptyMap, errors |-> EmptyMap]}

Classes ==
    UNION {{[kind |-> k, hook |-> h, schema |-> s] : h \in CleanHooks(k), s \in Schemas(k)}
           : k \in Kinds}

-----------------------------------------------------------------------------
(* HTMLForm *)

\* HTMLForm.__init__
HTMLForm__init__(data, files, initial) ==
    [is_bound |-> (data # NoneVal \/ files # NoneVal),
     data     |-> OrEmpty(data),
     files    |-> OrEmpty(files),
     initial  |-> OrEmpty(initial),
     _errors  |-> NoneVal]

\* The execution of a method: the instance and the invocation counters.
Env(o, nc, ns, nf) == [self |-> o, cleanCalls |-> nc, schemaCalls |-> ns, fullCleanCalls |-> nf]

\* clean(): the inherited "return self.cleaned_data", or the subclass's override.
clean(c, o) ==
    CASE c.hook.tag = "default" -> [raised |-> "no", value |-> o.cleaned_data, messages |-> << >>]
      [] c.hook.tag = "return"  -> [raised |-> "no", value |-> c.hook.value, messages |-> << >>]
      [] OTHER -> [raised |-> c.hook.tag, value |-> EmptyMap, messages |-> c.hook.messages]

\* HTMLForm.full_clean
HTMLForm_full_clean(c, e) ==
    LET o1 == [e.self EXCEPT !._errors = EmptyMap]
        e1 == [e EXCEPT !.self = o1, !.fullCleanCalls = @ + 1]
    IN  IF ~o1.is_bound
        THEN e1
        ELSE LET o2 == SetAttr(o1, "cleaned_data", o1.data)
                 r  == clean(c, o2)
                 o3 == IF r.raised = "ValidationError"
                       THEN [o2 EXCEPT !._errors = SetItem(@, NON_FIELD_ERRORS, r.messages)]
                       ELSE SetAttr(o2, "cleaned_data", r.value)
                 o4 == IF DictTruthy(o3._errors) THEN DelAttr(o3, "cleaned_data") ELSE o3
             IN  [e1 EXCEPT !.self = o4, !.cleanCalls = @ + 1]

-----------------------------------------------------------------------------
(* FormEncodeForm *)

\* self.to_python(self.data): the declared schema's conversion of the data
to_python(c, data) == c.schema

\* FormEncodeForm.full_clean with clean()'s failure replacing _errors
\* (self._errors = {NON_FIELD_ERRORS: ...}) instead of being added to it
FormEncodeForm_full_clean_replacing(c, e) ==
    LET o1 == [e.self EXCEPT !._errors = EmptyMap]
        e1 == [e EXCEPT !.self = o1, !.fullCleanCalls = @ + 1]
    IN  IF ~o1.is_bound
        THEN e1
        ELSE LET o2 == SetAttr(o1, "cleaned_data", EmptyMap)
                 s  == to_python(c, o2.data)
                 o3 == IF s.tag = "invalid"
                       THEN [o2 EXCEPT !._errors = s.errors]
                       ELSE SetAttr(o2, "cleaned_data", s.value)
                 r  == clean(c, o3)
                 o4 == IF r.raised \in {"Invalid", "ValidationError"}
                       THEN [o3 EXCEPT !._errors = SetItem(EmptyMap, NON_FIELD_ERRORS, r.messages)]
                       ELSE SetAttr(o3, "cleaned_data", r.value)
                 o5 == IF DictTruthy(o4._errors) THEN DelAttr(o4, "cleaned_data") ELSE o4
             IN  [e1 EXCEPT !.self = o5, !.cleanCalls = @ + 1, !.schemaCalls = @ + 1]

\* FormEncodeForm.full_clean
FormEncodeForm_full_clean(c, e) ==
    LET o1 == [e.self EXCEPT !._errors = EmptyMap]
        e1 == [e EXCEPT !.self = o1, !.fullCleanCalls = @ + 1]
    IN  IF ~o1.is_bound
        THEN e1
        ELSE LET o2 == SetAttr(o1, "cleaned_data", EmptyMap)
                 s  == to_python(c, o2.data)
                 o3 == IF s.tag = "invalid"
                       THEN [o2 EXCEPT !._errors = s.errors]
                       ELSE SetAttr(o2, "cleaned_data", s.value)
                 r  == clean(c, o3)
                 o4 == IF r.raised \in {"Invalid", "ValidationError"}
                       THEN [o3 EXCEPT !._errors = SetItem(@, NON_FIELD_ERRORS, r.messages)]
                       ELSE SetAttr(o3, "cleaned_data", r.value)
                 o5 == IF DictTruthy(o4._errors) THEN DelAttr(o4, "cleaned_data") ELSE o4
             IN  [e1 EXCEPT !.self = o5, !.cleanCalls = @ + 1, !.schemaCalls = @ + 1]

-----------------------------------------------------------------------------
(* The methods both classes share *)

\* self.full_clean(), dispatched on the instance's class
full_clean(c, e) ==
    IF c.kind = "FormEncodeForm" THEN FormEncodeForm_full_clean(c, e)
    ELSE HTMLForm_full_clean(c, e)

\* _get_errors without the "is None" test: every access validates again
_get_errors_unmemoized(c, e) ==
    LET e1 == full_clean(c, e)
    IN  [env |-> e1, value |-> e1.self._errors]

\* HTMLForm._get_errors, the getter of the errors property
_get_errors(c, e) ==
    LET e1 == IF e.self._errors = NoneVal THEN full_clean(c, e) ELSE e
    IN  [env |-> e1, value |-> e1.self._errors]

\* is_valid without the "self.is_bound and": not bool(self.errors) alone
is_valid_ignoring_is_bound(c, e) ==
    LET e1 == [e EXCEPT !.self = SetAttr(e.self, "cleaned_data", e.self.data)]
        g  == _get_errors(c, e1)
    IN  [env |-> g.env, value |-> ~DictTruthy(g.value)]

\* HTMLForm.is_valid
is_valid(c, e) ==
    LET e1 == [e EXCEPT !.self = SetAttr(e.self, "cleaned_data", e.self.data)]
    IN  IF ~e1.self.is_bound
        THEN [env |-> e1, value |-> FALSE]
        ELSE LET g == _get_errors(c, e1)
             IN  [env |-> g.env, value |-> ~DictTruthy(g.value)]

\* response.determine_charset(), or 'utf-8' when no request is active
response_charset(active) == IF active THEN "response.charset" ELSE "utf-8"

\* __unicode__ without the unbound branch: defaults=self.data always
__unicode__always_data(c, e, active) ==
    LET g == _get_errors(c, e)
    IN  [env |-> g.env,
         value |-> [source |-> "data", defaults |-> e.self.data,
                    errors |-> g.value, encoding |-> response_charset(active)]]

\* HTMLForm.__unicode__: the arguments handed to htmlfill.render
__unicode__(c, e, active) ==
    LET g == _get_errors(c, e)
    IN  IF ~e.self.is_bound
        THEN [env |-> g.env,
              value |-> [source |-> "initial", defaults |-> e.self.initial,
                         errors |-> g.value, encoding |-> response_charset(active)]]
        ELSE [env |-> g.env,
              value |-> [source |-> "data", defaults |-> e.self.data,
                         errors |-> g.value, encoding |-> response_charset(active)]]

-----------------------------------------------------------------------------
(* The form lifecycle as a state machine *)

Idle == [pc |-> "idle"]

Now == Env(self, cleanCalls, schemaCalls, fullCleanCalls)

Becomes(e) ==
    /\ self' = e.self
    /\ cleanCalls' = e.cleanCalls
    /\ schemaCalls' = e.schemaCalls
    /\ fullCleanCalls' = e.fullCleanCalls

InitForm ==
    /\ \E data \in {NoneVal} \cup DataMaps, files \in {NoneVal} \cup FileMaps,
          initial \in {NoneVal} \cup DataMaps :
            self = HTMLForm__init__(data, files, initial)
    /\ cls \in Classes
    /\ cleanCalls = 0 /\ schemaCalls = 0 /\ fullCleanCalls = 0
    /\ op = "__init__" /\ result = NoneVal
    /\ m2d = Idle /\ upd = Idle /\ ff = Idle

IsValid ==
    /\ fullCleanCalls < MaxCalls
    /\ LET r == is_valid(cls, Now) IN Becomes(r.env) /\ result' = r.value
    /\ op' = "is_valid"
    /\ UNCHANGED <<cls, m2d, upd, ff>>

Errors ==
    /\ fullCleanCalls < MaxCalls
    /\ LET r == _get_errors(cls, Now) IN Becomes(r.env) /\ result' = r.value
    /\ op' = "errors"
    /\ UNCHANGED <<cls, m2d, upd, ff>>

FullClean ==
    /\ fullCleanCalls < MaxCalls
    /\ Becomes(full_clean(cls, Now))
    /\ result' = NoneVal
    /\ op' = "full_clean"
    /\ UNCHANGED <<cls, m2d, upd, ff>>

Render ==
    /\ fullCleanCalls < MaxCalls
    /\ \E active \in BOOLEAN :
          LET r == __unicode__(cls, Now, active) IN Becomes(r.env) /\ result' = r.value
    /\ op' = "__unicode__"
    /\ UNCHANGED <<cls, m2d, upd, ff>>

\* Every method of the form, in any order.
Next == IsValid \/ Errors \/ FullClean \/ Render
Spec == InitForm /\ [][Next]_vars

\* The form used as the request-handling code uses it: through is_valid(),
\* errors and rendering only.
NextLazy == IsValid \/ Errors \/ Render
SpecLazy == InitForm /\ [][NextLazy]_vars

-----------------------------------------------------------------------------
(* The form lifecycle: properties *)

\* The errors mapping a failed clean() of an HTMLForm leaves: one entry.
WholeFormErrors(messages) == SetItem(EmptyMap, NON_FIELD_ERRORS, messages)

\* C1: in every reachable state of a form, the attribute cleaned_data exists
\* if and only if the most recent validation pass has run and left _errors
\* empty.
C1_CleanedDataIffNoErrors ==
    HasAttr(self, "cleaned_data") <=> (self._errors # NoneVal /\ self._errors = EmptyMap)

\* C2: is_valid() returns true exactly when the instance is bound and its
\* errors mapping is empty, on a bound instance the validation pass has run
\* by the time it returns, and on an unbound instance it returns false.
C2_IsValidResult ==
    op = "is_valid" =>
        /\ result = (self.is_bound /\ self._errors = EmptyMap)
        /\ self.is_bound => (self._errors # NoneVal /\ fullCleanCalls >= 1)
        /\ ~self.is_bound => result = FALSE

C2_Witness ==
    /\ op = "is_valid" /\ self.is_bound /\ result = TRUE
    /\ fullCleanCalls = 1 /\ DictTruthy(self.data)

\* C3: for a bound HTMLForm whose clean() raises a validation failure with
\* messages M, once the pass has run _errors is exactly {whole-form key: M},
\* and after is_valid() has returned false cleaned_data is absent.
C3_FailedCleanDiscardsCleanedData ==
    (cls.kind = "HTMLForm" /\ self.is_bound /\ cls.hook.tag = "ValidationError") =>
        /\ self._errors # NoneVal => self._errors = WholeFormErrors(cls.hook.messages)
        /\ (op = "is_valid" /\ result = FALSE) => ~HasAttr(self, "cleaned_data")

\* C4: through is_valid(), errors and rendering the validation pass runs at
\* most once, and only while _errors is still None; once _errors is set every
\* access leaves it as it is, runs neither clean() nor the schema, and errors
\* returns it.
C4_ValidatesOnce ==
    [][ /\ fullCleanCalls' <= 1 /\ cleanCalls' <= 1 /\ schemaCalls' <= 1
        /\ fullCleanCalls' > fullCleanCalls => self._errors = NoneVal
        /\ self._errors # NoneVal =>
              /\ self'._errors = self._errors
              /\ fullCleanCalls' = fullCleanCalls
              /\ cleanCalls' = cleanCalls
              /\ schemaCalls' = schemaCalls
        /\ op' = "errors" => result' = self'._errors ]_vars

\* The pass has run and failed, is_valid() was called after it, and errors
\* was read after that: a third access, with one clean() call in all.
C4_Witness ==
    /\ op = "errors" /\ cleanCalls = 1 /\ fullCleanCalls = 1
    /\ DictTruthy(self._errors) /\ HasAttr(self, "cleaned_data")

C9_SchemaThenCleanHook ==
    [][ (cls.kind = "FormEncodeForm" /\ self.is_bound /\ fullCleanCalls' = fullCleanCalls + 1) =>
          LET fieldErrors == IF cls.schema.tag = "invalid" THEN cls.schema.errors ELSE EmptyMap
              hookFails   == cls.hook.tag \in {"Invalid", "ValidationError"}
          IN  /\ schemaCalls' = schemaCalls + 1
              /\ cleanCalls' = cleanCalls + 1
              /\ \A f \in DOMAIN fieldErrors :
                    f \in DOMAIN self'._errors /\ self'._errors[f] = fieldErrors[f]
              /\ hookFails =>
                    /\ NON_FIELD_ERRORS \in DOMAIN self'._errors
                    /\ self'._errors[NON_FIELD_ERRORS] = cls.hook.messages
              /\ DOMAIN self'._errors =
                    (DOMAIN fieldErrors) \cup (IF hookFails THEN {NON_FIELD_ERRORS} ELSE {})
              /\ DictTruthy(self'._errors) => ~HasAttr(self', "cleaned_data")
              /\ ~DictTruthy(self'._errors) =>
                    /\ HasAttr(self', "cleaned_data")
                    /\ self'.cleaned_data =
                          (IF cls.hook.tag = "return" THEN cls.hook.value ELSE cls.schema.value) ]_vars

C9_Witness ==
    /\ cls.kind = "FormEncodeForm" /\ self.is_bound /\ fullCleanCalls = 1
    /\ cls.schema.tag = "invalid" /\ cls.hook.tag = "ValidationError"
    /\ self._errors # NoneVal
    /\ DOMAIN self._errors = {"foo", NON_FIELD_ERRORS}
    /\ ~HasAttr(self, "cleaned_data")

\* C10: for a bound HTMLForm whose clean() returns without raising, once the
\* pass has run cleaned_data is the value clean() returned (data, when
\* clean() is not overridden), however many is_valid() and errors calls follow.
C10_CleanedDataIsCleanResult ==
    (cls.kind = "HTMLForm" /\ self.is_bound /\ cls.hook.tag \in {"default", "return"}
       /\ self._errors # NoneVal) =>
        /\ HasAttr(self, "cleaned_data")
        /\ self.cleaned_data = (IF cls.hook.tag = "return" THEN cls.hook.value ELSE self.data)

-----------------------------------------------------------------------------
(* model_to_dict and update_model *)

MaxSources == 2

\* Attribute names and dict keys, as tuples of characters.
Keys == {<<"a">>, <<"_", "b">>, <<"c">>}
KeyLists == SUBSET Keys

\* attr.startswith('_')
startswith_underscore(attr) == Len(attr) > 0 /\ attr[1] = "_"

\* A source is an object, read through its __dict__, or a plain mapping.
SourceValues == {"v1", "v2"}
\* Only the key "a", the one the filters can keep in every source, takes both values.
SourceMaps ==
    {d \in UNION {[S -> SourceValues] : S \in SUBSET Keys} :
        \A k \in DOMAIN d : k # <<"a">> => d[k] = "v1"}
Sources ==
    {[kind |-> "object", __dict__ |-> d] : d \in SourceMaps}
    \cup {[kind |-> "dict", items |-> d] : d \in SourceMaps}

\* "if hasattr(item, '__dict__'): item = item.__dict__"
as_mapping(item) == IF item.kind = "object" THEN item.__dict__ ELSE item.items

\* The inner loop with "if attr not in ret" added: the first source wins
copy_item_first_wins(ret, item, include, exclude) ==
    LET kept == {attr \in DOMAIN item :
                    /\ ~(include # {} /\ attr \notin include)
                    /\ attr \notin exclude
                    /\ ~startswith_underscore(attr)
                    /\ attr \notin DOMAIN ret}
    IN  [k \in (DOMAIN ret) \cup kept |-> IF k \in kept THEN item[k] ELSE ret[k]]

\* model_to_dict's inner loop: "for attr in item: ... ret[attr] = item[attr]"
copy_item(ret, item, include, exclude) ==
    LET kept == {attr \in DOMAIN item :
                    /\ ~(include # {} /\ attr \notin include)
                    /\ attr \notin exclude
                    /\ ~startswith_underscore(attr)}
    IN  [k \in (DOMAIN ret) \cup kept |-> IF k \in kept THEN item[k] ELSE ret[k]]

\* model_to_dict's outer loop, from the i-th source on
RECURSIVE model_to_dict_from(_, _, _, _, _)
model_to_dict_from(items, i, ret, include, exclude) ==
    IF i > Len(items)
    THEN ret
    ELSE model_to_dict_from(items, i + 1,
                            copy_item(ret, as_mapping(items[i]), include, exclude),
                            include, exclude)

\* model_to_dict(*items, exclude=[], include=[])
model_to_dict(items, include, exclude) ==
    model_to_dict_from(items, 1, EmptyMap, include, exclude)

\* update_model's target: attribute name -> value; a value may be callable.
callable(v) == v = "<function>"
ModelObjects == UNION {[S -> {"v1", "<function>"}] : S \in SUBSET Keys}
FieldMaps == UNION {[S -> {"v2", "<function>"}] : S \in SUBSET Keys}

\* update_model(model, fields, exclude=[], include=[]): the target afterwards
update_model(model, fields, include, exclude) ==
    LET assigned == {k \in DOMAIN fields :
                        /\ ~(include # {} /\ k \notin include)
                        /\ HasAttr(model, k)
                        /\ ~callable(model[k])
                        /\ k \notin exclude}
    IN  [k \in (DOMAIN model) \cup assigned |-> IF k \in assigned THEN fields[k] ELSE model[k]]

\* A fixed form, for the specifications that exercise the helpers.
FormAtRest ==
    /\ self = HTMLForm__init__(NoneVal, NoneVal, NoneVal)
    /\ cls = [kind |-> "HTMLForm", hook |-> [tag |-> "default", value |-> EmptyMap, messages |-> << >>],
              schema |-> [tag |-> "none", value |-> EmptyMap, errors |-> EmptyMap]]
    /\ cleanCalls = 0 /\ schemaCalls = 0 /\ fullCleanCalls = 0
    /\ op = "__init__" /\ result = NoneVal

SourceSeqs == UNION {[1..n -> Sources] : n \in 0..MaxSources}

InitM2D ==
    /\ FormAtRest
    /\ \E items \in SourceSeqs, include \in KeyLists, exclude \in KeyLists :
          m2d = [pc |-> "call", items |-> items, include |-> include,
                 exclude |-> exclude, ret |-> EmptyMap]
    /\ upd = Idle /\ ff = Idle

ModelToDict ==
    /\ m2d.pc = "call"
    /\ m2d' = [m2d EXCEPT !.pc = "done",
                          !.ret = model_to_dict(m2d.items, m2d.include, m2d.exclude)]
    /\ UNCHANGED <<formVars, upd, ff>>

NextM2D == ModelToDict
SpecM2D == InitM2D /\ [][NextM2D]_vars

InitUpd ==
    /\ FormAtRest
    /\ \E model \in ModelObjects, fields \in FieldMaps, include \in KeyLists, exclude \in KeyLists :
          upd = [pc |-> "call", before |-> model, model |-> model, fields |-> fields,
                 include |-> include, exclude |-> exclude]
    /\ m2d = Idle /\ ff = Idle

UpdateModel ==
    /\ upd.pc = "call"
    /\ upd' = [upd EXCEPT !.pc = "done",
                          !.model = update_model(upd.model, upd.fields, upd.include, upd.exclude)]
    /\ UNCHANGED <<formVars, m2d, ff>>

NextUpd == UpdateModel
SpecUpd == InitUpd /\ [][NextUpd]_vars

\* C6: model_to_dict returns exactly the mapping that holds, for each key that
\* occurs in some source, passes include (when include is non-empty), is not
\* in exclude and does not start with an underscore, the value of that key in
\* the last source that contains it; the sources are as they were.
C6_ModelToDictResult ==
    m2d.pc = "done" =>
        LET n == Len(m2d.items)
            has(i, k) == k \in DOMAIN as_mapping(m2d.items[i])
            passes(k) == /\ (m2d.include = {} \/ k \in m2d.include)
                         /\ k \notin m2d.exclude
                         /\ ~(Len(k) > 0 /\ Head(k) = "_")
            last(k) == CHOOSE i \in 1..n : has(i, k) /\ \A j \in (i + 1)..n : ~has(j, k)
        IN  /\ DOMAIN m2d.ret = {k \in Keys : passes(k) /\ \E i \in 1..n : has(i, k)}
            /\ \A k \in DOMAIN m2d.ret : m2d.ret[k] = as_mapping(m2d.items[last(k)])[k]

\* Two sources disagree on a key that is kept, next to an excluded key and an
\* underscore key that are dropped.
C6_Witness ==
    /\ m2d.pc = "done" /\ Len(m2d.items) = 2
    /\ m2d.exclude = {<<"c">>} /\ m2d.include = {}
    /\ DOMAIN as_mapping(m2d.items[1]) = Keys
    /\ as_mapping(m2d.items[1])[<<"a">>] = "v1"
    /\ <<"a">> \in DOMAIN as_mapping(m2d.items[2])
    /\ as_mapping(m2d.items[2])[<<"a">>] = "v2"
    /\ m2d.ret = [k \in {<<"a">>} |-> "v2"]

\* C7: update_model sets the target's attribute k to fields[k] exactly for the
\* keys of fields that pass include (when non-empty), are not in exclude, do
\* not start with an underscore, and name an existing non-callable attribute
\* of the target; every other attribute is unchanged and none is created.
C7_UpdateModelResult ==
    upd.pc = "done" =>
        LET assigned(k) == /\ k \in DOMAIN upd.fields
                           /\ (upd.include = {} \/ k \in upd.include)
                           /\ k \notin upd.exclude
                           /\ ~(Len(k) > 0 /\ Head(k) = "_")
                           /\ k \in DOMAIN upd.before
                           /\ ~callable(upd.before[k])
        IN  /\ DOMAIN upd.model = DOMAIN upd.before
            /\ \A k \in DOMAIN upd.before :
                  upd.model[k] = (IF assigned(k) THEN upd.fields[k] ELSE upd.before[k])

-----------------------------------------------------------------------------
(* The patched FileField.clean *)

MaxNameLen == 2
MaxFileSize == 1

\* The values clean() is handed: None, a str, or an upload object (a
\* cgi.FieldStorage, or anything else with attributes) that has a subset of
\* the attributes filename and length.
PyNone == [type |-> "NoneType", text |-> << >>, attrs |-> {}, filename |-> << >>, length |-> 0]
PyStr(t) == [type |-> "str", text |-> t, attrs |-> {}, filename |-> << >>, length |-> 0]
PyUpload(attrs, name, size) ==
    [type |-> "FieldStorage", text |-> << >>, attrs |-> attrs,
     filename |-> IF "filename" \in attrs THEN name ELSE << >>,
     length |-> IF "length" \in attrs THEN size ELSE 0]

Names == UNION {[1..n -> {"a"}] : n \in 0..MaxNameLen}
Sizes == (-1)..MaxFileSize
Uploads == {PyUpload(a, n, z) : a \in SUBSET {"filename", "length"}, n \in Names, z \in Sizes}
SubmittedValues == {PyNone, PyStr(<< >>), PyStr(<<"t">>)} \cup Uploads
InitialValues == {PyNone, PyStr(<< >>), PyStr(<<"o", "l", "d">>)}
FileFields ==
    {[required |-> r, max_length_is_None |-> TRUE, max_length |-> 0] : r \in BOOLEAN}
    \cup {[required |-> r, max_length_is_None |-> FALSE, max_length |-> m] :
            r \in BOOLEAN, m \in 0..MaxNameLen}

\* bool(v); line 109 makes every cgi.FieldStorage true
truthy(v) ==
    CASE v.type = "NoneType" -> FALSE
      [] v.type = "str" -> v.text # << >>
      [] OTHER -> TRUE

\* v in fields.EMPTY_VALUES, which is (None, '')
in_EMPTY_VALUES(v) == v.type = "NoneType" \/ (v.type = "str" /\ v.text = << >>)

hasattr(v, a) == a \in v.attrs

Returns(v) == [kind |-> "return", value |-> v, message |-> "", max |-> 0, length |-> 0]
Raises(m) == [kind |-> "ValidationError", value |-> PyNone, message |-> m, max |-> 0, length |-> 0]
RaisesMaxLength(max, len) ==
    [kind |-> "ValidationError", value |-> PyNone, message |-> "max_length", max |-> max, length |-> len]

\* _FileField_clean with the tests of file_size and file_name exchanged
_FileField_clean_size_first(field, data, initial) ==
    IF field.required /\ in_EMPTY_VALUES(IF truthy(initial) THEN initial ELSE data)
    THEN Raises("required")
    ELSE IF ~field.required /\ in_EMPTY_VALUES(data)
    THEN Returns(PyNone)
    ELSE IF ~hasattr(data, "filename") /\ truthy(initial)
    THEN Returns(initial)
    ELSE IF ~(hasattr(data, "filename") /\ hasattr(data, "length"))
    THEN Raises("invalid")
    ELSE IF ~field.max_length_is_None /\ Len(data.filename) > field.max_length
    THEN RaisesMaxLength(field.max_length, Len(data.filename))
    ELSE IF data.length = 0
    THEN Raises("empty")
    ELSE IF data.filename = << >>
    THEN Raises("invalid")
    ELSE Returns(data)

\* _FileField_clean(self, data, initial=None). Its first statement is
\* Field.clean(initial or data), which raises 'required' for a required
\* field whose value is in EMPTY_VALUES.
_FileField_clean(field, data, initial) ==
    IF field.required /\ in_EMPTY_VALUES(IF truthy(initial) THEN initial ELSE data)
    THEN Raises("required")
    ELSE IF ~field.required /\ in_EMPTY_VALUES(data)
    THEN Returns(PyNone)
    ELSE IF ~hasattr(data, "filename") /\ truthy(initial)
    THEN Returns(initial)
    ELSE IF ~(hasattr(data, "filename") /\ hasattr(data, "length"))
    THEN Raises("invalid")
    ELSE IF ~field.max_length_is_None /\ Len(data.filename) > field.max_length
    THEN RaisesMaxLength(field.max_length, Len(data.filename))
    ELSE IF data.filename = << >>
    THEN Raises("invalid")
    ELSE IF data.length = 0
    THEN Raises("empty")
    ELSE Returns(data)

InitFile ==
    /\ FormAtRest
    /\ \E field \in FileFields, data \in SubmittedValues, initial \in InitialValues :
          ff = [pc |-> "call", field |-> field, data |-> data, initial |-> initial,
                outcome |-> Returns(PyNone)]
    /\ m2d = Idle /\ upd = Idle

FileFieldClean ==
    /\ ff.pc = "call"
    /\ ff' = [ff EXCEPT !.pc = "done",
                        !.outcome = _FileField_clean(ff.field, ff.data, ff.initial)]
    /\ UNCHANGED <<formVars, m2d, upd>>

NextFile == FileFieldClean
SpecFile == InitFile /\ [][NextFile]_vars

\* The outcome for an upload object that has both attributes, in the order
\* max_length, empty filename, zero length.
UploadPolicy(field, data, outcome) ==
    LET tooLong == ~field.max_length_is_None /\ Len(data.filename) > field.max_length
        noName  == data.filename = << >>
        noBytes == data.length = 0
    IN  /\ tooLong => outcome = RaisesMaxLength(field.max_length, Len(data.filename))
        /\ (~tooLong /\ noName) => outcome = Raises("invalid")
        /\ (~tooLong /\ ~noName /\ noBytes) => outcome = Raises("empty")
        /\ (~tooLong /\ ~noName /\ ~noBytes) => outcome = Returns(data)

\* C8, as stated: a required field with nothing submitted fails; a submitted
\* object lacking filename or length fails with 'invalid'; then 'max_length'
\* (with the filename's length), 'invalid' for an empty filename, 'empty' for
\* a zero length; in every other case the submitted value is returned unchanged.
C8_FileFieldPolicyAsStated ==
    ff.pc = "done" =>
        LET nothing  == in_EMPTY_VALUES(ff.data)
            complete == hasattr(ff.data, "filename") /\ hasattr(ff.data, "length")
        IN  /\ (ff.field.required /\ nothing) => ff.outcome.kind = "ValidationError"
            /\ (~nothing /\ ~complete) => ff.outcome = Raises("invalid")
            /\ (~nothing /\ complete) => UploadPolicy(ff.field, ff.data, ff.outcome)
            /\ (~ff.field.required /\ nothing) => ff.outcome.kind = "return"

\* C8, amended: a required field fails with 'required' when initial-or-data
\* is empty; a non-required field with nothing submitted yields None; a
\* submitted value without a filename attribute yields initial when initial
\* is non-empty; otherwise the stated policy applies.
C8_FileFieldPolicy ==
    ff.pc = "done" =>
        LET nothing  == in_EMPTY_VALUES(ff.data)
            fallback == truthy(ff.initial)
            complete == hasattr(ff.data, "filename") /\ hasattr(ff.data, "length")
            required == ff.field.required /\ nothing /\ ~fallback
            skipped  == ~ff.field.required /\ nothing
            kept     == ~required /\ ~skipped /\ ~hasattr(ff.data, "filename") /\ fallback
        IN  /\ required => ff.outcome = Raises("required")
            /\ skipped => ff.outcome = Returns(PyNone)
            /\ kept => ff.outcome = Returns(ff.initial)
            /\ (~required /\ ~skipped /\ ~kept /\ ~complete) => ff.outcome = Raises("invalid")
            /\ (~required /\ ~skipped /\ ~kept /\ complete) =>
                  UploadPolicy(ff.field, ff.data, ff.outcome)

\* A required field, an upload object without a length, and an initial
\* value: the filename is there, so initial is not used and 'invalid' is raised.
C8_Witness ==
    /\ ff.pc = "done"
    /\ ff.field.required
    /\ ff.data = PyUpload({"filename"}, <<"a">>, 0)
    /\ truthy(ff.initial)
    /\ ff.outcome = Raises("invalid")

====
